---- MODULE Spec2Model ----
(***************************************************************************)
(* Heatmap visualization pipeline of the ToolProject repository:           *)
(* read_data -> apply_rolling_average -> colour scales -> region slicing   *)
(* -> create_heatmap panels -> savefig, as driven by the six visualize_*   *)
(* methods of HeatmapVisualizer (src/heatmap/heatmap_interactive.py).      *)
(*                                                                         *)
(* Text is modelled character by character: a line is a sequence of        *)
(* one-character strings.  Floating-point values are modelled as exact     *)
(* fixed-point numbers: the float v is the integer v * Unit, where Unit is *)
(* chosen so that the means over 3x3 and 6x6 windows are integers.         *)
(***************************************************************************)
EXTENDS Integers, Sequences, FiniteSets, TLC

VARIABLES
    fileLines,   \* content of the data file named by config['filepath']
    config,      \* the configuration dict handed to visualize_*
    mode,        \* viz_type of the last run ("none" before the first run)
    data,        \* what read_data returned in the last run
    region,      \* region_coords of the last run (<<>> when the mode has none)
    panels,      \* the panels create_heatmap drew on the figure, in order
    err,         \* exception class that ended the last run ("" when none)
    saved,       \* TRUE when the last run reached plt.savefig
    numpyStrict, \* the numpy build: numpy.array raises on ragged rows
    window,      \* window_size of a direct apply_rolling_average call (0: none)
    smoothed,    \* what that call returned
    dpi,         \* plt.rcParams['figure.dpi'] (<<>>: matplotlib's default)
    figure_dpi,  \* the dpi the last run's figure was created with
    driver,      \* who calls: "method", "gui" or "script"
    disk,        \* the data files on disk: path -> lines
    config_file, \* content of config.json
    config_edit, \* text of the GUI's configuration editor
    opened,      \* TRUE when the last run opened the data file
    output_path, \* the file the last run wrote with plt.savefig (<<>>: none)
    run_config,  \* the configuration a driver's last run worked with
    warning,     \* message box the last GUI event showed ("" when none)
    events       \* number of GUI events so far

runVars == <<mode, data, region, panels, err, saved, figure_dpi>>
driverVars ==
    <<driver, disk, config_file, config_edit, opened, output_path,
      run_config, warning, events>>

vars ==
    <<fileLines, config, numpyStrict, mode, data, region, panels, err, saved,
      window, smoothed, dpi, figure_dpi, driver, disk, config_file,
      config_edit, opened, output_path, run_config, warning, events>>

---------------------------------------------------------------------------
(* Bounds of the model *)

MaxLines == 3    \* body lines of a file of the parsing family
MaxRows == 3     \* rows of a file of the numeric family
MaxShape == 17   \* rows and columns of a file of the shape family
MaxEvents == 2   \* events of a GUI session

(* Program constants *)

SmallWindow == 3
LargeWindow == 6
MaxAnnotatedCells == 400
MinRegionSide == 3
RegionDivisor == 4
Dpi100 == 100
Dpi120 == 120

Unit == LargeWindow * LargeWindow

Max(a, b) == IF a >= b THEN a ELSE b
Min(a, b) == IF a <= b THEN a ELSE b

---------------------------------------------------------------------------
(* Python str operations used by read_data *)

Whitespace == {" ", "\t"}
DigitChars == <<"0", "1", "2", "3", "4", "5", "6", "7", "8", "9">>
IsDigit(ch) == \E k \in 1..10 : DigitChars[k] = ch
DigitValue(ch) == (CHOOSE k \in 1..10 : DigitChars[k] = ch) - 1

RECURSIVE LStrip(_)
LStrip(s) == IF s # <<>> /\ Head(s) \in Whitespace THEN LStrip(Tail(s)) ELSE s

RECURSIVE RStrip(_)
RStrip(s) ==
    IF s # <<>> /\ s[Len(s)] \in Whitespace
    THEN RStrip(SubSeq(s, 1, Len(s) - 1))
    ELSE s

\* str.strip()
Strip(s) == RStrip(LStrip(s))

\* str.startswith(prefix)
StartsWith(s, prefix) ==
    Len(s) >= Len(prefix) /\ SubSeq(s, 1, Len(prefix)) = prefix

CommentPrefixes ==
    { <<"#">>,
      <<"O", "r", "i", "g", "i", "n", "a", "l">>,
      <<"C", "o", "l", "u", "m", "n", "s">> }

\* str.split(sep) for a one-character separator: empty fields are kept
RECURSIVE Split(_, _)
Split(s, sep) ==
    IF \A k \in 1..Len(s) : s[k] # sep
    THEN <<s>>
    ELSE LET k == CHOOSE k \in 1..Len(s) :
                      s[k] = sep /\ \A m \in 1..(k - 1) : s[m] # sep
         IN <<SubSeq(s, 1, k - 1)>> \o Split(SubSeq(s, k + 1, Len(s)), sep)

RECURSIVE Decimal(_)
Decimal(t) ==
    IF t = <<>> THEN 0
    ELSE 10 * Decimal(SubSeq(t, 1, Len(t) - 1)) + DigitValue(t[Len(t)])

\* float(t) succeeds on a string of decimal digits; every other string of the
\* model's alphabet (letters, ':', ',', '#', inner whitespace) raises ValueError
FloatOk(t) == t # <<>> /\ \A k \in 1..Len(t) : IsDigit(t[k])
Float(t) == Decimal(t) * Unit

NonEmpty(t) == t # <<>>

\* KeepLine with the 'Columns' prefix forgotten
KeepLine_NoColumns(line) ==
    /\ line # <<>>
    /\ ~StartsWith(line, <<"#">>)
    /\ ~StartsWith(line, <<"O", "r", "i", "g", "i", "n", "a", "l">>)

\* line 33: the test that keeps a stripped line
KeepLine(line) ==
    line # <<>> /\ \A p \in CommentPrefixes : ~StartsWith(line, p)

\* line 34: [x.strip() for x in line.split(sep) if x.strip()]
Tokens(line, sep) ==
    LET parts == Split(line, sep)
    IN SelectSeq([k \in 1..Len(parts) |-> Strip(parts[k])], NonEmpty)

---------------------------------------------------------------------------
(* read_data and numpy.array *)

\* numpy.array(data) on a list of lists of floats.  An empty list gives an empty
\* 1-D float array.  Rows of one length give a 2-D float array.  Rows of
\* different lengths depend on the numpy build: it raises ValueError
\* (raggedRaises) or returns a 1-D array of dtype object holding the lists.
np_array(rows, raggedRaises) ==
    IF rows = <<>>
    THEN [err |-> "", ndim |-> 1, dtype |-> "float64", rows |-> <<>>]
    ELSE IF \A k \in 1..Len(rows) : Len(rows[k]) = Len(rows[1])
    THEN [err |-> "", ndim |-> 2, dtype |-> "float64", rows |-> rows]
    ELSE IF raggedRaises
    THEN [err |-> "ValueError", ndim |-> 0, dtype |-> "", rows |-> <<>>]
    ELSE [err |-> "", ndim |-> 1, dtype |-> "object", rows |-> rows]

read_data(lines, sep, raggedRaises) ==
    LET stripped == [k \in 1..Len(lines) |-> Strip(lines[k])]
        kept == SelectSeq(stripped, KeepLine)
        toks == [k \in 1..Len(kept) |-> Tokens(kept[k], sep)]
        bad == \E k \in 1..Len(toks) : \E m \in 1..Len(toks[k]) :
                   ~FloatOk(toks[k][m])
        row == [k \in 1..Len(toks) |->
                   [m \in 1..Len(toks[k]) |-> Float(toks[k][m])]]
    IN IF bad
       THEN [err |-> "ValueError", ndim |-> 0, dtype |-> "", rows |-> <<>>]
       ELSE np_array(SelectSeq(row, NonEmpty), raggedRaises)

---------------------------------------------------------------------------
(* numpy helpers on the rows of a 2-D array *)

NRows(rows) == Len(rows)
NCols(rows) == IF rows = <<>> THEN 0 ELSE Len(rows[1])
Size(rows) == NRows(rows) * NCols(rows)
Cells(rows) == {rows[i][j] : i \in 1..NRows(rows), j \in 1..NCols(rows)}

\* np.min / np.max of a non-empty array
np_min(rows) == CHOOSE v \in Cells(rows) : \A u \in Cells(rows) : v <= u
np_max(rows) == CHOOSE v \in Cells(rows) : \A u \in Cells(rows) : v >= u

\* a[start:stop] in Python: negative indices count from the end, and both ends
\* are clipped to the sequence
SliceIndex(i, n) == IF i < 0 THEN Max(i + n, 0) ELSE Min(i, n)
Slice(s, start, stop) ==
    SubSeq(s, SliceIndex(start, Len(s)) + 1, SliceIndex(stop, Len(s)))

\* SliceRegion with the axes swapped: data[x:x + w, y:y + h]
SliceRegion_Transposed(rows, x, y, w, h) ==
    LET picked == Slice(rows, x, x + w)
    IN [i \in 1..Len(picked) |-> Slice(picked[i], y, y + h)]

\* data[y:y + h, x:x + w]
SliceRegion(rows, x, y, w, h) ==
    LET picked == Slice(rows, y, y + h)
    IN [i \in 1..Len(picked) |-> Slice(picked[i], x, x + w)]

---------------------------------------------------------------------------
(* scipy.ndimage.uniform_filter(data, size, mode='nearest') *)

\* the window of a filter of the given size reaches from -(size // 2) to
\* size - size // 2 - 1 around the cell (one further to the left when even)
WindowLo(size) == 0 - (size \div 2)
\* WindowHi with the last offset left out
WindowHi_Exclusive(size) == size - (size \div 2) - 2
WindowHi(size) == size - (size \div 2) - 1

\* Nearest as zero padding: an index outside the line reads 0
Nearest_ZeroPad(line, k) == IF k \in 1..Len(line) THEN line[k] ELSE 0

\* mode='nearest': an index outside the line reads the nearest edge cell
Nearest(line, k) == line[Max(1, Min(k, Len(line)))]

RECURSIVE WindowSum(_, _, _, _)
WindowSum(line, j, lo, hi) ==
    IF lo > hi THEN 0
    ELSE Nearest(line, j + lo) + WindowSum(line, j, lo + 1, hi)

\* the running sums along one line
Filter1d(line, size) ==
    [j \in 1..Len(line) |-> WindowSum(line, j, WindowLo(size), WindowHi(size))]

\* uniform_filter whose window sums are divided by the window's side only
uniform_filter_DividedOnce(rows, size) ==
    LET along == [i \in 1..NRows(rows) |-> Filter1d(rows[i], size)]
        down == [j \in 1..NCols(rows) |->
                    Filter1d([i \in 1..NRows(rows) |-> along[i][j]], size)]
    IN [i \in 1..NRows(rows) |->
           [j \in 1..NCols(rows) |-> down[j][i] \div size]]

\* one pass along each row, one along each column, then the division that
\* turns the window sums into means
uniform_filter(rows, size) ==
    LET along == [i \in 1..NRows(rows) |-> Filter1d(rows[i], size)]
        down == [j \in 1..NCols(rows) |->
                    Filter1d([i \in 1..NRows(rows) |-> along[i][j]], size)]
    IN [i \in 1..NRows(rows) |->
           [j \in 1..NCols(rows) |-> down[j][i] \div (size * size)]]

apply_rolling_average(rows, window_size) == uniform_filter(rows, window_size)

---------------------------------------------------------------------------
(* HeatmapVisualizer *)

\* dict.get(key, default)
Get(cfg, key, default) == IF key \in DOMAIN cfg THEN cfg[key] ELSE default

Title(text, args) == [text |-> text, args |-> args]

\* An optional argument (vmin, vmax, mark_area) is <<>> for None.
\* imshow maps the data through vmin..vmax; an end that is None is taken from
\* the data's own extremum, and stays unset when the data is empty.
Clim(rows, vmin, vmax) ==
    IF Size(rows) = 0 /\ (vmin = <<>> \/ vmax = <<>>)
    THEN <<>>
    ELSE << IF vmin = <<>> THEN np_min(rows) ELSE vmin[1],
            IF vmax = <<>> THEN np_max(rows) ELSE vmax[1] >>

\* the k-th smallest cell of a non-empty array, counting from 1
KthSmallest(rows, k) ==
    LET cell == {<<i, j>> : i \in 1..NRows(rows), j \in 1..NCols(rows)}
    IN CHOOSE v \in Cells(rows) :
           /\ Cardinality({c \in cell : rows[c[1]][c[2]] < v}) < k
           /\ Cardinality({c \in cell : rows[c[1]][c[2]] <= v}) >= k

\* the upper of the two middle cells taken for the median, doubled
Median2_UpperMiddle(rows) == 2 * KthSmallest(rows, Size(rows) \div 2 + 1)

\* np.median(data), doubled: the middle cell of the sorted cells counted twice,
\* or the sum of the two middle cells when their number is even
Median2(rows) ==
    KthSmallest(rows, (Size(rows) + 1) \div 2)
        + KthSmallest(rows, Size(rows) \div 2 + 1)

\* ValueLabels with white text from the median upwards
ValueLabels_AtLeast(rows) ==
    LET median2 == IF Size(rows) = 0 THEN 0 ELSE Median2(rows)
    IN [i \in 1..NRows(rows) |->
           [j \in 1..NCols(rows) |->
               IF 2 * rows[i][j] >= median2 THEN "white" ELSE "black"]]

\* lines 70-76: one text per cell, white above the median and black otherwise
ValueLabels(rows) ==
    LET median2 == IF Size(rows) = 0 THEN 0 ELSE Median2(rows)
    IN [i \in 1..NRows(rows) |->
           [j \in 1..NCols(rows) |->
               IF 2 * rows[i][j] > median2 THEN "white" ELSE "black"]]

\* create_heatmap that labels the cells of a grid of any size
create_heatmap_NoLimit(rows, title, vmin, vmax, show_values, mark_area, unit) ==
    [ data |-> rows,
      title |-> title,
      clim |-> Clim(rows, vmin, vmax),
      unit_label |-> IF unit = "Intensity" THEN "Intensity"
                     ELSE "Co loading (ug cm^-2)",
      rect |-> mark_area,
      show_values |-> show_values,
      annotated |-> show_values,
      labels |-> IF show_values THEN ValueLabels(rows) ELSE <<>> ]

\* one drawn panel: image, colour scale, colourbar label, rectangle, value
\* labels, title
create_heatmap(rows, title, vmin, vmax, show_values, mark_area, unit) ==
    [ data |-> rows,
      title |-> title,
      clim |-> Clim(rows, vmin, vmax),
      unit_label |-> IF unit = "Intensity" THEN "Intensity"
                     ELSE "Co loading (ug cm^-2)",
      rect |-> mark_area,
      show_values |-> show_values,
      annotated |-> show_values /\ Size(rows) <= MaxAnnotatedCells,
      labels |-> IF show_values /\ Size(rows) <= MaxAnnotatedCells
                 THEN ValueLabels(rows)
                 ELSE <<>> ]

\* DefaultRegionOfShape with rows and columns mixed up in the region's sides
DefaultRegionOfShape_Swapped(h, w) ==
    LET region_h == Max(MinRegionSide, w \div RegionDivisor)
        region_w == Max(MinRegionSide, h \div RegionDivisor)
    IN <<w - region_w, h - region_h, region_w, region_h>>

\* h, w = data.shape; the bottom-right quarter, at least 3 cells a side
DefaultRegionOfShape(h, w) ==
    LET region_h == Max(MinRegionSide, h \div RegionDivisor)
        region_w == Max(MinRegionSide, w \div RegionDivisor)
    IN <<w - region_w, h - region_h, region_w, region_h>>

_get_default_region(rows) == DefaultRegionOfShape(NRows(rows), NCols(rows))

\* what a run leaves behind; rc_dpi is the value the run assigned to
\* plt.rcParams['figure.dpi'] (<<>> when it assigned none), fig is TRUE when
\* the run created its figure
Outcome(d, e, r, ps, s, rc_dpi, fig) ==
    [data |-> d, err |-> e, region |-> r, panels |-> ps, saved |-> s,
     rc_dpi |-> rc_dpi, fig |-> fig]

\* an exception before the figure is set up
Failed(d, e) == Outcome(d, e, <<>>, <<>>, FALSE, <<>>, FALSE)

Load(cfg, lines, raggedRaises) ==
    read_data(lines, Get(cfg, "sep", "\t"), raggedRaises)

visualize_single(cfg, lines, raggedRaises) ==
    LET d == Load(cfg, lines, raggedRaises)
    IN IF d.err # "" THEN Failed(d, d.err)
       ELSE IF d.ndim # 2
       THEN Outcome(d, "TypeError", <<>>, <<>>, FALSE, <<Dpi100>>, TRUE)
       ELSE Outcome(d, "", <<>>,
                << create_heatmap(d.rows, Title("Original Data", <<>>),
                                  <<>>, <<>>, TRUE, <<>>, "Co loading") >>,
                TRUE, <<Dpi100>>, TRUE)

\* FullPanels with the 6x6 average drawn before the 3x3 average
FullPanels_LargeFirst(rows, data_3x3, data_6x6, vmin, vmax, mark_area) ==
    << create_heatmap(rows, Title("Original Data", <<>>),
                      vmin, vmax, TRUE, mark_area, "Co loading"),
       create_heatmap(data_6x6, Title("6x6 Rolling Average", <<>>),
                      vmin, vmax, TRUE, mark_area, "Co loading"),
       create_heatmap(data_3x3, Title("3x3 Rolling Average", <<>>),
                      vmin, vmax, TRUE, mark_area, "Co loading") >>

\* the three full-grid panels of the rolling modes
FullPanels(rows, data_3x3, data_6x6, vmin, vmax, mark_area) ==
    << create_heatmap(rows, Title("Original Data", <<>>),
                      vmin, vmax, TRUE, mark_area, "Co loading"),
       create_heatmap(data_3x3, Title("3x3 Rolling Average", <<>>),
                      vmin, vmax, TRUE, mark_area, "Co loading"),
       create_heatmap(data_6x6, Title("6x6 Rolling Average", <<>>),
                      vmin, vmax, TRUE, mark_area, "Co loading") >>

visualize_single_rolling_diff_unit(cfg, lines, raggedRaises) ==
    LET d == Load(cfg, lines, raggedRaises)
    IN IF d.err # "" THEN Failed(d, d.err)
       ELSE IF d.dtype = "object" THEN Failed(d, "RuntimeError")
       ELSE IF d.ndim # 2
       THEN Outcome(d, "TypeError", <<>>, <<>>, FALSE, <<Dpi100>>, TRUE)
       ELSE LET data_3x3 == apply_rolling_average(d.rows, SmallWindow)
                data_6x6 == apply_rolling_average(d.rows, LargeWindow)
            IN Outcome(d, "", <<>>,
                   FullPanels(d.rows, data_3x3, data_6x6, <<>>, <<>>, <<>>),
                   TRUE, <<Dpi100>>, TRUE)

\* visualize_single_rolling_same_unit without vmin / vmax handed to the panels
visualize_single_rolling_same_unit_Auto(cfg, lines, raggedRaises) ==
    visualize_single_rolling_diff_unit(cfg, lines, raggedRaises)

visualize_single_rolling_same_unit(cfg, lines, raggedRaises) ==
    LET d == Load(cfg, lines, raggedRaises)
    IN IF d.err # "" THEN Failed(d, d.err)
       ELSE IF d.rows = <<>> THEN Failed(d, "ValueError")
       ELSE IF d.dtype = "object" THEN Failed(d, "RuntimeError")
       ELSE LET global_min == np_min(d.rows)
                global_max == np_max(d.rows)
                data_3x3 == apply_rolling_average(d.rows, SmallWindow)
                data_6x6 == apply_rolling_average(d.rows, LargeWindow)
            IN Outcome(d, "", <<>>,
                   FullPanels(d.rows, data_3x3, data_6x6,
                              <<global_min>>, <<global_max>>, <<>>),
                   TRUE, <<Dpi120>>, TRUE)

\* region_coords = tuple(config.get('region', self._get_default_region(data)))
RegionCoords(cfg, rows) == Get(cfg, "region", _get_default_region(rows))

visualize_whole(cfg, lines, raggedRaises) ==
    LET d == Load(cfg, lines, raggedRaises)
    IN IF d.err # "" THEN Failed(d, d.err)
       ELSE IF d.ndim # 2 THEN Failed(d, "ValueError")
       ELSE LET rc == RegionCoords(cfg, d.rows)
                x == rc[1]
                y == rc[2]
                w == rc[3]
                h == rc[4]
                region_data == SliceRegion(d.rows, x, y, w, h)
            IN Outcome(d, "", rc,
                   << create_heatmap(d.rows,
                          Title("Full Heatmap with Marked Region", <<>>),
                          <<>>, <<>>, FALSE, rc, "Co loading"),
                      create_heatmap(region_data,
                          Title("Zoomed Region", <<w, h, x, y>>),
                          <<>>, <<>>, TRUE, <<>>, "Co loading") >>,
                   TRUE, <<>>, TRUE)

\* the three region panels of the whole+rolling modes
RegionPanels(region_data, region_3x3, region_6x6, w, h, vmin, vmax) ==
    << create_heatmap(region_data, Title("Original Region", <<w, h>>),
                      vmin, vmax, TRUE, <<>>, "Co loading"),
       create_heatmap(region_3x3, Title("3x3 Region", <<w, h>>),
                      vmin, vmax, TRUE, <<>>, "Co loading"),
       create_heatmap(region_6x6, Title("6x6 Region", <<w, h>>),
                      vmin, vmax, TRUE, <<>>, "Co loading") >>

\* visualize_whole_rolling_diff_unit with the region cut out first and the
\* cut-out smoothed
visualize_whole_rolling_diff_unit_SliceFirst(cfg, lines, raggedRaises) ==
    LET d == Load(cfg, lines, raggedRaises)
    IN IF d.err # "" THEN Failed(d, d.err)
       ELSE IF d.ndim # 2 THEN Failed(d, "ValueError")
       ELSE LET rc == RegionCoords(cfg, d.rows)
                data_3x3 == apply_rolling_average(d.rows, SmallWindow)
                data_6x6 == apply_rolling_average(d.rows, LargeWindow)
                x == rc[1]
                y == rc[2]
                w == rc[3]
                h == rc[4]
                region_data == SliceRegion(d.rows, x, y, w, h)
                region_3x3 == IF Size(region_data) = 0 THEN region_data
                              ELSE apply_rolling_average(region_data, SmallWindow)
                region_6x6 == IF Size(region_data) = 0 THEN region_data
                              ELSE apply_rolling_average(region_data, LargeWindow)
            IN Outcome(d, "", rc,
                   FullPanels(d.rows, data_3x3, data_6x6, <<>>, <<>>, rc)
                       \o RegionPanels(region_data, region_3x3, region_6x6,
                                       w, h, <<>>, <<>>),
                   TRUE, <<Dpi100>>, TRUE)

visualize_whole_rolling_diff_unit(cfg, lines, raggedRaises) ==
    LET d == Load(cfg, lines, raggedRaises)
    IN IF d.err # "" THEN Failed(d, d.err)
       ELSE IF d.ndim # 2 THEN Failed(d, "ValueError")
       ELSE LET rc == RegionCoords(cfg, d.rows)
                data_3x3 == apply_rolling_average(d.rows, SmallWindow)
                data_6x6 == apply_rolling_average(d.rows, LargeWindow)
                x == rc[1]
                y == rc[2]
                w == rc[3]
                h == rc[4]
                region_data == SliceRegion(d.rows, x, y, w, h)
                region_3x3 == SliceRegion(data_3x3, x, y, w, h)
                region_6x6 == SliceRegion(data_6x6, x, y, w, h)
            IN Outcome(d, "", rc,
                   FullPanels(d.rows, data_3x3, data_6x6, <<>>, <<>>, rc)
                       \o RegionPanels(region_data, region_3x3, region_6x6,
                                       w, h, <<>>, <<>>),
                   TRUE, <<Dpi100>>, TRUE)

\* min(np.min(a), np.min(b), np.min(c)) and its max twin
\* Min3 over the original region alone
Min3_OriginalOnly(a, b, c) == np_min(a)
Min3(a, b, c) == Min(np_min(a), Min(np_min(b), np_min(c)))
Max3(a, b, c) == Max(np_max(a), Max(np_max(b), np_max(c)))

visualize_whole_rolling_same_unit(cfg, lines, raggedRaises) ==
    LET d == Load(cfg, lines, raggedRaises)
    IN IF d.err # "" THEN Failed(d, d.err)
       ELSE IF d.ndim # 2 THEN Failed(d, "ValueError")
       ELSE LET rc == RegionCoords(cfg, d.rows)
                data_3x3 == apply_rolling_average(d.rows, SmallWindow)
                data_6x6 == apply_rolling_average(d.rows, LargeWindow)
                global_min == np_min(d.rows)
                global_max == np_max(d.rows)
                x == rc[1]
                y == rc[2]
                w == rc[3]
                h == rc[4]
                region_data == SliceRegion(d.rows, x, y, w, h)
                region_3x3 == SliceRegion(data_3x3, x, y, w, h)
                region_6x6 == SliceRegion(data_6x6, x, y, w, h)
            IN IF Size(region_data) = 0
               THEN Outcome(d, "ValueError", rc, <<>>, FALSE, <<>>, FALSE)
               ELSE LET region_min == Min3(region_data, region_3x3, region_6x6)
                        region_max == Max3(region_data, region_3x3, region_6x6)
                    IN Outcome(d, "", rc,
                           FullPanels(d.rows, data_3x3, data_6x6,
                                      <<global_min>>, <<global_max>>, rc)
                               \o RegionPanels(region_data, region_3x3,
                                      region_6x6, w, h,
                                      <<region_min>>, <<region_max>>),
                           TRUE, <<Dpi100>>, TRUE)

---------------------------------------------------------------------------
(* Inputs: the data files and configurations the runs are tried on *)

SeqsUpTo(S, n) == UNION {[1..k -> S] : k \in 0..n}

DataPath == <<"d", "a", "t", "a", ".", "t", "x", "t">>

\* the parsing family: comment, header, blank, ragged and non-numeric lines
HeaderLine == <<"#", " ", "h", "e", "a", "d", "e", "r">>
ColumnsLine ==
    <<"C", "o", "l", "u", "m", "n", "s", ":", " ", "a", " ", "b", " ", "c">>
Headers == { <<>>, <<HeaderLine, ColumnsLine>> }
ParseLines ==
    { <<"1", "\t", "2">>,
      <<" ", "3", "\t", " ", "\t", "4", " ">>,
      <<"5", ",", "6">>,
      <<",">>,
      <<" ">>,
      <<" ", "O", "r", "i", "g", "i", "n", "a", "l", "7">>,
      <<"8">> }
ParseInputs ==
    { [file |-> h \o b, cfg |-> c, strict |-> n] :
        h \in Headers,
        b \in SeqsUpTo(ParseLines, MaxLines),
        c \in { [filepath |-> DataPath, sep |-> "\t"],
                [filepath |-> DataPath, sep |-> ","] },
        n \in BOOLEAN }

\* the numeric family: rectangular grids of three or four columns, with and
\* without a configured region
Lines3 ==
    { <<"1", "\t", "2", "\t", "3">>,
      <<"4", "\t", "0", "\t", "6">>,
      <<"7", "\t", "8", "\t", "2">> }
Lines4 ==
    { <<"3", "\t", "9", "\t", "5", "\t", "1">>,
      <<"0", "\t", "2", "\t", "7", "\t", "4">> }
Regions ==
    { <<0, 0, 2, 2>>, <<1, 1, 2, 2>>, <<1, 0, 2, 1>>, <<0, 1, 1, 2>>,
      <<2, 2, 3, 3>>, <<5, 0, 1, 1>>, <<1, 1, 3, 1>> }
GridInputs ==
    { [file |-> b, cfg |-> c, strict |-> TRUE] :
        b \in SeqsUpTo(Lines3, MaxRows) \cup SeqsUpTo(Lines4, MaxRows),
        c \in { [filepath |-> DataPath] }
              \cup { [filepath |-> DataPath, sep |-> "\t", region |-> r] :
                       r \in Regions } }

\* the shape family: grids of zeros of every shape up to MaxShape x MaxShape
ZeroLine(w) == [k \in 1..(2 * w - 1) |-> IF k % 2 = 1 THEN "0" ELSE "\t"]
ZeroFile(h, w) == [i \in 1..h |-> ZeroLine(w)]
ShapeInputs ==
    { [file |-> ZeroFile(h, w), cfg |-> [filepath |-> DataPath],
       strict |-> TRUE] :
        h \in 1..MaxShape, w \in 1..MaxShape }

NoData == [err |-> "", ndim |-> 0, dtype |-> "", rows |-> <<>>]

\* a text that holds no JSON (an empty editor, a broken file)
NoText == [ok |-> FALSE]

InitWith(inputs) ==
    /\ \E in \in inputs :
           /\ fileLines = in.file
           /\ config = in.cfg
           /\ numpyStrict = in.strict
    /\ mode = "none"
    /\ data = NoData
    /\ region = <<>>
    /\ panels = <<>>
    /\ err = ""
    /\ saved = FALSE
    /\ window = 0
    /\ smoothed = <<>>
    /\ dpi = <<>>
    /\ figure_dpi = <<>>
    /\ driver = "method"
    /\ disk = <<>>
    /\ config_file = [exists |-> FALSE]
    /\ config_edit = NoText
    /\ opened = FALSE
    /\ output_path = <<>>
    /\ run_config = <<>>
    /\ warning = ""
    /\ events = 0

Init == InitWith(ParseInputs \cup GridInputs)

InitShape == InitWith(ShapeInputs)

\* the grids the static methods are called on directly
SmoothInputs == {in \in GridInputs : "region" \notin DOMAIN in.cfg}
Windows == {1, SmallWindow, LargeWindow}

InitSmooth == InitWith(SmoothInputs)

---------------------------------------------------------------------------
(* One action per visualize_* method: a whole run, from read_data to savefig *)

\* the figure of a run is created with the rcParams of that moment
Finish(viz_type, out) ==
    /\ mode' = viz_type
    /\ data' = out.data
    /\ region' = out.region
    /\ panels' = out.panels
    /\ err' = out.err
    /\ saved' = out.saved
    /\ dpi' = IF out.rc_dpi = <<>> THEN dpi ELSE out.rc_dpi
    /\ figure_dpi' = IF out.fig THEN dpi' ELSE <<>>

Run(viz_type, out) ==
    /\ driver = "method"
    /\ mode = "none"
    /\ Finish(viz_type, out)
    /\ UNCHANGED <<fileLines, config, numpyStrict, window, smoothed>>
    /\ UNCHANGED driverVars

VisualizeSingle ==
    Run("single", visualize_single(config, fileLines, numpyStrict))

VisualizeSingleRollingDiffUnit ==
    Run("single_rolling_diff",
        visualize_single_rolling_diff_unit(config, fileLines, numpyStrict))

VisualizeSingleRollingSameUnit ==
    Run("single_rolling_same",
        visualize_single_rolling_same_unit(config, fileLines, numpyStrict))

VisualizeWhole ==
    Run("whole", visualize_whole(config, fileLines, numpyStrict))

VisualizeWholeRollingDiffUnit ==
    Run("whole_rolling_diff",
        visualize_whole_rolling_diff_unit(config, fileLines, numpyStrict))

VisualizeWholeRollingSameUnit ==
    Run("whole_rolling_same",
        visualize_whole_rolling_same_unit(config, fileLines, numpyStrict))

Next ==
    \/ VisualizeSingle
    \/ VisualizeSingleRollingDiffUnit
    \/ VisualizeSingleRollingSameUnit
    \/ VisualizeWhole
    \/ VisualizeWholeRollingDiffUnit
    \/ VisualizeWholeRollingSameUnit

Spec == Init /\ [][Next]_vars

\* the region modes alone, on the grids of the shape family
NextShape ==
    \/ VisualizeWhole
    \/ VisualizeWholeRollingDiffUnit

SpecShape == InitShape /\ [][NextShape]_vars

---------------------------------------------------------------------------
(* The static methods called on their own *)

\* HeatmapVisualizer.read_data(config['filepath'], config.get('sep', '\t'))
ReadData ==
    /\ mode = "none"
    /\ mode' = "read_data"
    /\ data' = Load(config, fileLines, numpyStrict)
    /\ err' = data'.err
    /\ UNCHANGED <<fileLines, config, numpyStrict, region, panels, saved,
                   window, smoothed, dpi, figure_dpi>>
    /\ UNCHANGED driverVars

\* HeatmapVisualizer.apply_rolling_average(data, window_size) on a loaded grid
ApplyRollingAverage ==
    /\ mode = "read_data"
    /\ data.err = ""
    /\ data.ndim = 2
    /\ \E w \in Windows :
           /\ window' = w
           /\ smoothed' = apply_rolling_average(data.rows, w)
    /\ mode' = "apply_rolling_average"
    /\ UNCHANGED <<fileLines, config, numpyStrict, data, region, panels, err,
                   saved, dpi, figure_dpi>>
    /\ UNCHANGED driverVars

NextSmooth ==
    \/ ReadData
    \/ ApplyRollingAverage

SpecSmooth == InitSmooth /\ [][NextSmooth]_vars

---------------------------------------------------------------------------
(* Paths, JSON texts and the files on disk *)

\* the last index of ch in p, 0 when ch does not occur
LastIndex(p, ch) ==
    IF \E k \in 1..Len(p) : p[k] = ch
    THEN CHOOSE k \in 1..Len(p) :
             p[k] = ch /\ \A m \in (k + 1)..Len(p) : p[m] # ch
    ELSE 0

\* splitext that cuts at the first dot of the path
splitext_FirstDot(p) ==
    IF \E k \in 1..Len(p) : p[k] = "."
    THEN LET k == CHOOSE k \in 1..Len(p) :
                      p[k] = "." /\ \A m \in 1..(k - 1) : p[m] # "."
         IN <<SubSeq(p, 1, k - 1), SubSeq(p, k, Len(p))>>
    ELSE <<p, <<>> >>

\* os.path.splitext(p) with '/' as the separator: the extension starts at the
\* last dot of the last path component, unless only dots precede it there
splitext(p) ==
    LET sepIndex == LastIndex(p, "/")
        dotIndex == LastIndex(p, ".")
    IN IF dotIndex > sepIndex
          /\ \E k \in (sepIndex + 1)..(dotIndex - 1) : p[k] # "."
       THEN <<SubSeq(p, 1, dotIndex - 1), SubSeq(p, dotIndex, Len(p))>>
       ELSE <<p, <<>> >>

VizTypes ==
    {"single", "single_rolling_diff", "single_rolling_same",
     "whole", "whole_rolling_diff", "whole_rolling_same"}

\* the tails of output_map: f"{base_name}-heatmap-s.png" and its five twins
SuffixS ==
    <<"-", "h", "e", "a", "t", "m", "a", "p", "-", "s", ".", "p", "n", "g">>
SuffixSdu ==
    <<"-", "h", "e", "a", "t", "m", "a", "p", "-", "s", "d", "u", ".", "p",
      "n", "g">>
SuffixSsu ==
    <<"-", "h", "e", "a", "t", "m", "a", "p", "-", "s", "s", "u", ".", "p",
      "n", "g">>
SuffixW ==
    <<"-", "h", "e", "a", "t", "m", "a", "p", "-", "w", ".", "p", "n", "g">>
SuffixWdu ==
    <<"-", "h", "e", "a", "t", "m", "a", "p", "-", "w", "d", "u", ".", "p",
      "n", "g">>
SuffixWsu ==
    <<"-", "h", "e", "a", "t", "m", "a", "p", "-", "w", "s", "u", ".", "p",
      "n", "g">>

OutputSuffix(viz_type) ==
    CASE viz_type = "single" -> SuffixS
      [] viz_type = "single_rolling_diff" -> SuffixSdu
      [] viz_type = "single_rolling_same" -> SuffixSsu
      [] viz_type = "whole" -> SuffixW
      [] viz_type = "whole_rolling_diff" -> SuffixWdu
      [] viz_type = "whole_rolling_same" -> SuffixWsu

\* base_name = os.path.splitext(filepath)[0]; f"{base_name}<suffix>"
OutputPath(viz_type, filepath) ==
    splitext(filepath)[1] \o OutputSuffix(viz_type)

\* A JSON text is modelled by what json.loads makes of it: a text that fails
\* to parse (NoText), or the dict it parses to.  json.dumps of a dict is the
\* text that parses back to it.
Dumps(cfg) == [ok |-> TRUE, value |-> cfg]

\* config.json: absent, or a file holding a text
Missing == [exists |-> FALSE]
File(text) == [exists |-> TRUE, text |-> text]

\* {**defaults, **config}
Merge(defaults, cfg) ==
    [k \in DOMAIN defaults \cup DOMAIN cfg |->
        IF k \in DOMAIN cfg THEN cfg[k] ELSE defaults[k]]

\* the data files of the drivers
PathData == <<"d", "a", "t", "a", ".", "t", "x", "t">>
PathNoExt == <<"r", "u", "n", ".", "1", "/", "g", "r", "i", "d">>
PathTwoDots == <<"a", ".", "b", ".", "t", "x", "t">>
PathBig == <<"b", "i", "g", ".", "t", "x", "t">>
PathEdge == <<"e", "d", "g", "e", ".", "t", "x", "t">>
PathEmpty == <<"e", "m", "p", "t", "y", ".", "t", "x", "t">>
PathRagged == <<"r", "a", "g", "g", "e", "d", ".", "t", "x", "t">>
PathGone == <<"g", "o", "n", "e", ".", "t", "x", "t">>
DefaultPathXRF ==
    <<"d", "a", "t", "a", "/", "X", "R", "F", "_", "d", "a", "t", "a", "_",
      "2", ".", "t", "x", "t", ".", "t", "x", "t">>
DefaultPathCo ==
    <<"d", "a", "t", "a", "/", "C", "o", "_", "l", "o", "a", "d", "i", "n",
      "g", "_", "c", "a", "l", "c", "u", "l", "a", "t", "e", "d", "-", "a",
      "f", "t", "e", "r", " ", "H", "N", "O", "3", ".", "t", "x", "t">>

Line12 == <<"1", "\t", "2">>
Line34 == <<"3", "\t", "4">>
Grid2x2 == <<Line12, Line34>>
Grid3x3 ==
    << <<"1", "\t", "2", "\t", "3">>,
       <<"4", "\t", "0", "\t", "6">>,
       <<"7", "\t", "8", "\t", "2">> >>
Grid2x4 ==
    << <<"3", "\t", "9", "\t", "5", "\t", "1">>,
       <<"0", "\t", "2", "\t", "7", "\t", "4">> >>

\* a grid of BigRows x BigCols cells is too large for value labels, one of
\* BigCols x BigCols cells is just small enough
BigRows == 21
BigCols == 20

FileContent(path) ==
    CASE path = PathData -> Grid2x2
      [] path = PathNoExt -> Grid3x3
      [] path = PathTwoDots -> Grid2x4
      [] path = PathBig -> ZeroFile(BigRows, BigCols)
      [] path = PathEdge -> ZeroFile(BigCols, BigCols)
      [] path = PathEmpty -> <<HeaderLine, <<" ">> >>
      [] path = PathRagged -> <<Line12, <<"8">> >>
      [] path = DefaultPathXRF -> Grid2x2
      [] path = DefaultPathCo -> Grid3x3

BasePaths ==
    {PathData, PathNoExt, PathTwoDots, PathBig, PathEdge, PathEmpty,
     PathRagged}

\* the files the built-in default configurations point to, when present
DefaultPaths == {DefaultPathXRF, DefaultPathCo}

BaseDisk == [path \in BasePaths |-> FileContent(path)]

Disks ==
    {BaseDisk, [path \in BasePaths \cup DefaultPaths |-> FileContent(path)]}

Configs ==
    { [filepath |-> PathData],
      [filepath |-> PathData, sep |-> "\t", region |-> <<0, 0, 5, 5>>],
      [filepath |-> PathNoExt],
      [filepath |-> PathNoExt, sep |-> "\t", region |-> <<1, 1, 2, 2>>],
      [filepath |-> PathTwoDots, sep |-> "\t", region |-> <<2, 0, 2, 2>>],
      [filepath |-> PathEmpty],
      [filepath |-> PathRagged],
      [filepath |-> PathGone],
      [sep |-> "\t"] }

\* configurations of the two large grids, for the single runs of the scripts
BigConfigs ==
    { [filepath |-> PathBig],
      [filepath |-> PathBig, sep |-> "\t", region |-> <<18, 19, 2, 2>>],
      [filepath |-> PathEdge, sep |-> "\t", region |-> <<0, 0, 3, 2>>] }

ConfigFiles == {Missing, File(NoText)} \cup {File(Dumps(c)) : c \in Configs}
BigConfigFiles == {File(Dumps(c)) : c \in BigConfigs}

---------------------------------------------------------------------------
(* Opening and reading the data file *)

\* with open(filepath, 'r') as f: ... return np.array(data)
open_read(dsk, filepath, sep, raggedRaises) ==
    IF filepath \notin DOMAIN dsk
    THEN [opened |-> FALSE, lines |-> <<>>,
          d |-> [err |-> "FileNotFoundError", ndim |-> 0, dtype |-> "",
                 rows |-> <<>>]]
    ELSE [opened |-> TRUE, lines |-> dsk[filepath],
          d |-> read_data(dsk[filepath], sep, raggedRaises)]

\* Result of a run whose file is written whether or not the plotting failed
Result_AlwaysWrites(cfg, rd, out, path) ==
    [cfg |-> cfg, opened |-> rd.opened, lines |-> rd.lines, out |-> out,
     output_path |-> path]

\* what a driver's run leaves behind: the configuration it ran with, whether
\* and what it read, the outcome of the plotting, the file savefig wrote
Result(cfg, rd, out, path) ==
    [cfg |-> cfg, opened |-> rd.opened, lines |-> rd.lines, out |-> out,
     output_path |-> IF out.saved THEN path ELSE <<>>]

NotRead == [opened |-> FALSE, lines |-> <<>>]

\* a run that ended before the data file was touched
Aborted(cfg, e) == Result(cfg, NotRead, Failed(NoData, e), <<>>)

---------------------------------------------------------------------------
(* The standalone scripts: heatmap_single.py, heatmap_single_rolling_*.py,   *)
(* heatmap_whole.py, heatmap_whole_rolling_*.py                              *)

\* load_config of heatmap_single.py, heatmap_single_rolling_diff_unit.py,
\* heatmap_whole.py and heatmap_whole_rolling_diff_unit.py: a missing file is
\* reported and re-raised, a broken text raises json.JSONDecodeError
load_config(cf) ==
    IF ~cf.exists THEN [err |-> "FileNotFoundError", cfg |-> <<>>]
    ELSE IF ~cf.text.ok THEN [err |-> "JSONDecodeError", cfg |-> <<>>]
    ELSE [err |-> "", cfg |-> cf.text.value]

\* load_config of the two *_same_unit.py scripts: the file's keys over the
\* built-in defaults, and the defaults alone when the file is missing
load_config_defaults(cf, defaults) ==
    IF ~cf.exists THEN [err |-> "", cfg |-> defaults]
    ELSE IF ~cf.text.ok THEN [err |-> "JSONDecodeError", cfg |-> <<>>]
    ELSE [err |-> "", cfg |-> Merge(defaults, cf.text.value)]

DefaultRegion == <<140, 120, 85, 100>>
DefaultsXRF == [sep |-> "\t", filepath |-> DefaultPathXRF]
DefaultsCo ==
    [sep |-> "\t", filepath |-> DefaultPathCo, region |-> DefaultRegion]

\* three panels drawn by a create_heatmap that has no value labels
PlainPanels(rows, data_3x3, data_6x6, vmin, vmax, unit) ==
    << create_heatmap(rows, Title("Original Data", <<>>),
                      vmin, vmax, FALSE, <<>>, unit),
       create_heatmap(data_3x3, Title("3x3 Rolling Average", <<>>),
                      vmin, vmax, FALSE, <<>>, unit),
       create_heatmap(data_6x6, Title("6x6 Rolling Average", <<>>),
                      vmin, vmax, FALSE, <<>>, unit) >>

\* heatmap_single.py, create_heatmap(data, output_path=output_path)
single_create_heatmap(d) ==
    IF d.ndim # 2
    THEN Outcome(d, "TypeError", <<>>, <<>>, FALSE, <<Dpi100>>, TRUE)
    ELSE Outcome(d, "", <<>>,
             << create_heatmap(d.rows, Title("Original Data", <<>>),
                               <<>>, <<>>, FALSE, <<>>, "Co loading") >>,
             TRUE, <<Dpi100>>, TRUE)

\* heatmap_single.py, __main__
heatmap_single_main(cf, dsk, raggedRaises) ==
    LET c == load_config(cf)
    IN IF c.err # "" THEN Aborted(c.cfg, c.err)
       ELSE IF "filepath" \notin DOMAIN c.cfg THEN Aborted(c.cfg, "KeyError")
       ELSE LET rd == open_read(dsk, c.cfg.filepath,
                                Get(c.cfg, "sep", "\t"), raggedRaises)
                d == rd.d
            IN Result(c.cfg, rd,
                   IF d.err # "" THEN Failed(d, d.err)
                   ELSE IF d.rows = <<>> THEN Failed(d, "ValueError")
                   ELSE IF d.dtype = "object" THEN Failed(d, "TypeError")
                   ELSE single_create_heatmap(d),
                   splitext(c.cfg.filepath)[1] \o SuffixS)

\* heatmap_single_rolling_diff_unit.py, plot_side_by_side_heatmaps
plot_side_by_side_heatmaps(d) ==
    IF d.dtype = "object" THEN Failed(d, "RuntimeError")
    ELSE IF d.ndim # 2
    THEN Outcome(d, "TypeError", <<>>, <<>>, FALSE, <<Dpi100>>, TRUE)
    ELSE LET data_3x3 == apply_rolling_average(d.rows, SmallWindow)
             data_6x6 == apply_rolling_average(d.rows, LargeWindow)
         IN Outcome(d, "", <<>>,
                PlainPanels(d.rows, data_3x3, data_6x6, <<>>, <<>>,
                            "Co loading"),
                TRUE, <<Dpi100>>, TRUE)

\* heatmap_single_rolling_diff_unit.py, __main__
heatmap_single_rolling_diff_unit_main(cf, dsk, raggedRaises) ==
    LET c == load_config(cf)
    IN IF c.err # "" THEN Aborted(c.cfg, c.err)
       ELSE IF "filepath" \notin DOMAIN c.cfg THEN Aborted(c.cfg, "KeyError")
       ELSE LET rd == open_read(dsk, c.cfg.filepath,
                                Get(c.cfg, "sep", "\t"), raggedRaises)
                d == rd.d
            IN Result(c.cfg, rd,
                   IF d.err # "" THEN Failed(d, d.err)
                   ELSE plot_side_by_side_heatmaps(d),
                   splitext(c.cfg.filepath)[1] \o SuffixSdu)

\* heatmap_single_rolling_same_unit.py, plot_unified_scale_heatmaps
plot_unified_scale_heatmaps(d) ==
    LET global_min == np_min(d.rows)
        global_max == np_max(d.rows)
        data_3x3 == apply_rolling_average(d.rows, SmallWindow)
        data_6x6 == apply_rolling_average(d.rows, LargeWindow)
    IN Outcome(d, "", <<>>,
           PlainPanels(d.rows, data_3x3, data_6x6,
                       <<global_min>>, <<global_max>>, "Intensity"),
           TRUE, <<Dpi120>>, TRUE)

\* heatmap_single_rolling_same_unit.py, __main__
heatmap_single_rolling_same_unit_main(cf, dsk, raggedRaises) ==
    LET c == load_config_defaults(cf, DefaultsXRF)
    IN IF c.err # "" THEN Aborted(c.cfg, c.err)
       ELSE LET rd == open_read(dsk, c.cfg.filepath, c.cfg.sep, raggedRaises)
                d == rd.d
            IN Result(c.cfg, rd,
                   IF d.err # "" THEN Failed(d, d.err)
                   ELSE IF d.rows = <<>> THEN Failed(d, "ValueError")
                   ELSE IF d.dtype = "object" THEN Failed(d, "TypeError")
                   ELSE plot_unified_scale_heatmaps(d),
                   splitext(c.cfg.filepath)[1] \o SuffixSsu)

\* heatmap_whole.py, plot_marked_region_heatmaps; region_coords is <<>> for
\* None
plot_marked_region_heatmaps(d, region_coords) ==
    IF d.ndim # 2
    THEN Failed(d, IF region_coords = <<>> THEN "ValueError" ELSE "IndexError")
    ELSE LET rc == IF region_coords = <<>>
                   THEN DefaultRegionOfShape(NRows(d.rows), NCols(d.rows))
                   ELSE region_coords
             x == rc[1]
             y == rc[2]
             w == rc[3]
             h == rc[4]
             region_data == SliceRegion(d.rows, x, y, w, h)
         IN Outcome(d, "", rc,
                << create_heatmap(d.rows,
                       Title("Full Heatmap with Marked Region", <<>>),
                       <<>>, <<>>, FALSE, rc, "Co loading"),
                   create_heatmap(region_data,
                       Title("Zoomed Region", <<w, h, x, y>>),
                       <<>>, <<>>, TRUE, <<>>, "Co loading") >>,
                TRUE, <<>>, TRUE)

\* heatmap_whole.py, __main__
heatmap_whole_main(cf, dsk, raggedRaises) ==
    LET c == load_config(cf)
    IN IF c.err # "" THEN Aborted(c.cfg, c.err)
       ELSE IF "filepath" \notin DOMAIN c.cfg THEN Aborted(c.cfg, "KeyError")
       ELSE IF "region" \notin DOMAIN c.cfg THEN Aborted(c.cfg, "KeyError")
       ELSE LET rd == open_read(dsk, c.cfg.filepath,
                                Get(c.cfg, "sep", "\t"), raggedRaises)
                d == rd.d
            IN Result(c.cfg, rd,
                   IF d.err # "" THEN Failed(d, d.err)
                   ELSE plot_marked_region_heatmaps(d, c.cfg.region),
                   splitext(c.cfg.filepath)[1] \o SuffixW)

\* heatmap_whole_rolling_diff_unit.py, plot_all_heatmaps
plot_all_heatmaps(d, region_coords) ==
    LET data_3x3 == apply_rolling_average(d.rows, SmallWindow)
        data_6x6 == apply_rolling_average(d.rows, LargeWindow)
        x == region_coords[1]
        y == region_coords[2]
        w == region_coords[3]
        h == region_coords[4]
        region_data == SliceRegion(d.rows, x, y, w, h)
        region_3x3 == SliceRegion(data_3x3, x, y, w, h)
        region_6x6 == SliceRegion(data_6x6, x, y, w, h)
    IN Outcome(d, "", region_coords,
           FullPanels(d.rows, data_3x3, data_6x6, <<>>, <<>>, region_coords)
               \o RegionPanels(region_data, region_3x3, region_6x6,
                               w, h, <<>>, <<>>),
           TRUE, <<Dpi100>>, TRUE)

\* heatmap_whole_rolling_diff_unit.py, __main__
heatmap_whole_rolling_diff_unit_main(cf, dsk, raggedRaises) ==
    LET c == load_config(cf)
    IN IF c.err # "" THEN Aborted(c.cfg, c.err)
       ELSE IF "filepath" \notin DOMAIN c.cfg THEN Aborted(c.cfg, "KeyError")
       ELSE IF "region" \notin DOMAIN c.cfg THEN Aborted(c.cfg, "KeyError")
       ELSE LET rd == open_read(dsk, c.cfg.filepath,
                                Get(c.cfg, "sep", "\t"), raggedRaises)
                d == rd.d
            IN Result(c.cfg, rd,
                   IF d.err # "" THEN Failed(d, d.err)
                   ELSE IF d.rows = <<>> THEN Failed(d, "ValueError")
                   ELSE IF d.dtype = "object" THEN Failed(d, "TypeError")
                   ELSE plot_all_heatmaps(d, c.cfg.region),
                   splitext(c.cfg.filepath)[1] \o SuffixWdu)

\* heatmap_whole_rolling_same_unit.py, plot_grouped_heatmaps
plot_grouped_heatmaps(d, region_coords) ==
    LET data_3x3 == apply_rolling_average(d.rows, SmallWindow)
        data_6x6 == apply_rolling_average(d.rows, LargeWindow)
        global_min == np_min(d.rows)
        global_max == np_max(d.rows)
        x == region_coords[1]
        y == region_coords[2]
        w == region_coords[3]
        h == region_coords[4]
        region_data == SliceRegion(d.rows, x, y, w, h)
        region_3x3 == SliceRegion(data_3x3, x, y, w, h)
        region_6x6 == SliceRegion(data_6x6, x, y, w, h)
    IN IF Size(region_data) = 0
       THEN Outcome(d, "ValueError", region_coords, <<>>, FALSE, <<>>, FALSE)
       ELSE LET region_min == Min3(region_data, region_3x3, region_6x6)
                region_max == Max3(region_data, region_3x3, region_6x6)
            IN Outcome(d, "", region_coords,
                   FullPanels(d.rows, data_3x3, data_6x6,
                              <<global_min>>, <<global_max>>, region_coords)
                       \o RegionPanels(region_data, region_3x3, region_6x6,
                                       w, h, <<region_min>>, <<region_max>>),
                   TRUE, <<Dpi100>>, TRUE)

\* heatmap_whole_rolling_same_unit.py, __main__
heatmap_whole_rolling_same_unit_main(cf, dsk, raggedRaises) ==
    LET c == load_config_defaults(cf, DefaultsCo)
    IN IF c.err # "" THEN Aborted(c.cfg, c.err)
       ELSE LET rd == open_read(dsk, c.cfg.filepath, c.cfg.sep, raggedRaises)
                d == rd.d
            IN Result(c.cfg, rd,
                   IF d.err # "" THEN Failed(d, d.err)
                   ELSE IF d.rows = <<>> THEN Failed(d, "ValueError")
                   ELSE IF d.dtype = "object" THEN Failed(d, "TypeError")
                   ELSE plot_grouped_heatmaps(d, c.cfg.region),
                   splitext(c.cfg.filepath)[1] \o SuffixWsu)

---------------------------------------------------------------------------
(* HeatmapGUI: the state of the window is the record                        *)
(* [config, config_edit, config_file, warning]                              *)

\* save_config that opens config.json for writing before it parses the text
HeatmapGUI_save_config_Truncating(g) ==
    IF g.config_edit.ok
    THEN [g EXCEPT !.config = g.config_edit.value,
                   !.config_file = File(Dumps(g.config_edit.value))]
    ELSE [g EXCEPT !.config_file = File(NoText),
                   !.warning = "Invalid JSON format"]

\* save_config: the editor's text becomes current_config and config.json,
\* unless it is no JSON
HeatmapGUI_save_config(g) ==
    IF g.config_edit.ok
    THEN [g EXCEPT !.config = g.config_edit.value,
                   !.config_file = File(Dumps(g.config_edit.value))]
    ELSE [g EXCEPT !.warning = "Invalid JSON format"]

HeatmapGUI_update_config_display(g) ==
    [g EXCEPT !.config_edit = Dumps(g.config)]

HeatmapGUI_load_config(g) ==
    IF g.config_file.exists
    THEN IF g.config_file.text.ok
         THEN HeatmapGUI_update_config_display(
                  [g EXCEPT !.config = g.config_file.text.value])
         ELSE [g EXCEPT !.warning = "Invalid JSON in config file"]
    ELSE HeatmapGUI_update_config_display(
             HeatmapGUI_save_config([g EXCEPT !.config = DefaultsCo]))

\* __init__: default_config, an empty editor, then load_config()
HeatmapGUI_init(cf) ==
    HeatmapGUI_load_config(
        [config |-> DefaultsCo, config_edit |-> NoText, config_file |-> cf,
         warning |-> ""])

\* browse_data_file with a file chosen in the dialog
HeatmapGUI_browse_data_file(g, file_path) ==
    HeatmapGUI_update_config_display(
        [g EXCEPT !.config = Merge(g.config, [filepath |-> file_path])])

viz_methods(viz_type, cfg, lines, raggedRaises) ==
    CASE viz_type = "single" -> visualize_single(cfg, lines, raggedRaises)
      [] viz_type = "single_rolling_diff" ->
             visualize_single_rolling_diff_unit(cfg, lines, raggedRaises)
      [] viz_type = "single_rolling_same" ->
             visualize_single_rolling_same_unit(cfg, lines, raggedRaises)
      [] viz_type = "whole" -> visualize_whole(cfg, lines, raggedRaises)
      [] viz_type = "whole_rolling_diff" ->
             visualize_whole_rolling_diff_unit(cfg, lines, raggedRaises)
      [] viz_type = "whole_rolling_same" ->
             visualize_whole_rolling_same_unit(cfg, lines, raggedRaises)

\* run_visualization after its save_config(): the output path, then the
\* visualize_* method on current_config; every exception is caught and shown
HeatmapGUI_run_visualization(cfg, viz_type, dsk, raggedRaises) ==
    IF "filepath" \notin DOMAIN cfg THEN Aborted(cfg, "KeyError")
    ELSE IF cfg.filepath \notin DOMAIN dsk
    THEN Aborted(cfg, "FileNotFoundError")
    ELSE Result(cfg, [opened |-> TRUE, lines |-> dsk[cfg.filepath]],
                viz_methods(viz_type, cfg, dsk[cfg.filepath], raggedRaises),
                OutputPath(viz_type, cfg.filepath))

---------------------------------------------------------------------------
(* The drivers: a GUI session of several events, or one run of a script *)

\* what the user types into the editor, and picks in the file dialog
EditorTexts ==
    { NoText,
      Dumps([filepath |-> PathData]),
      Dumps([filepath |-> PathTwoDots, sep |-> "\t",
             region |-> <<2, 0, 2, 2>>]) }
BrowsePaths == {PathData, PathNoExt}

InitDrivers ==
    /\ disk \in Disks
    /\ driver \in {"gui", "script"}
    /\ \E cf \in ConfigFiles \cup BigConfigFiles :
           IF driver = "gui"
           THEN LET g == HeatmapGUI_init(cf)
                IN /\ cf \in ConfigFiles
                   /\ config = g.config
                   /\ config_edit = g.config_edit
                   /\ config_file = g.config_file
                   /\ warning = g.warning
                   /\ numpyStrict = TRUE
           ELSE /\ config = <<>>
                /\ config_edit = NoText
                /\ config_file = cf
                /\ warning = ""
                /\ numpyStrict \in BOOLEAN
    /\ fileLines = <<>>
    /\ mode = "none"
    /\ data = NoData
    /\ region = <<>>
    /\ panels = <<>>
    /\ err = ""
    /\ saved = FALSE
    /\ window = 0
    /\ smoothed = <<>>
    /\ dpi = <<>>
    /\ figure_dpi = <<>>
    /\ opened = FALSE
    /\ output_path = <<>>
    /\ run_config = <<>>
    /\ events = 0

\* the window before an event: no message box is up
Window ==
    [config |-> config, config_edit |-> config_edit,
     config_file |-> config_file, warning |-> ""]

SetWindow(g) ==
    /\ config' = g.config
    /\ config_edit' = g.config_edit
    /\ config_file' = g.config_file
    /\ warning' = g.warning

GuiEvent ==
    /\ driver = "gui"
    /\ events < MaxEvents
    /\ events' = events + 1
    /\ UNCHANGED <<numpyStrict, window, smoothed, driver, disk>>

\* the user replaces the text of the configuration editor
EditConfig ==
    /\ GuiEvent
    /\ \E t \in EditorTexts : SetWindow([Window EXCEPT !.config_edit = t])
    /\ UNCHANGED <<fileLines, dpi, opened, output_path, run_config>>
    /\ UNCHANGED runVars

\* button 'Load Config'
LoadConfig ==
    /\ GuiEvent
    /\ SetWindow(HeatmapGUI_load_config(Window))
    /\ UNCHANGED <<fileLines, dpi, opened, output_path, run_config>>
    /\ UNCHANGED runVars

\* button 'Save Config'
SaveConfig ==
    /\ GuiEvent
    /\ SetWindow(HeatmapGUI_save_config(Window))
    /\ UNCHANGED <<fileLines, dpi, opened, output_path, run_config>>
    /\ UNCHANGED runVars

\* button 'Browse Data File'
BrowseDataFile ==
    /\ GuiEvent
    /\ \E file_path \in BrowsePaths :
           SetWindow(HeatmapGUI_browse_data_file(Window, file_path))
    /\ UNCHANGED <<fileLines, dpi, opened, output_path, run_config>>
    /\ UNCHANGED runVars

\* one of the six visualization buttons: run_visualization(viz_type)
RunVisualization ==
    /\ GuiEvent
    /\ \E viz_type \in VizTypes :
       \E g \in {HeatmapGUI_save_config(Window)} :
       \E r \in {HeatmapGUI_run_visualization(g.config, viz_type, disk,
                                              numpyStrict)} :
           /\ SetWindow(g)
           /\ Finish(viz_type, r.out)
           /\ fileLines' = r.lines
           /\ opened' = r.opened
           /\ output_path' = r.output_path
           /\ run_config' = r.cfg

\* python <script>: one process, one run
Script(viz_type, r) ==
    /\ driver = "script"
    /\ mode = "none"
    /\ Finish(viz_type, r.out)
    /\ config' = r.cfg
    /\ fileLines' = r.lines
    /\ opened' = r.opened
    /\ output_path' = r.output_path
    /\ run_config' = r.cfg
    /\ UNCHANGED <<numpyStrict, window, smoothed, driver, disk, config_file,
                   config_edit, warning, events>>

ScriptSingle ==
    Script("single", heatmap_single_main(config_file, disk, numpyStrict))

ScriptSingleRollingDiffUnit ==
    Script("single_rolling_diff",
           heatmap_single_rolling_diff_unit_main(config_file, disk,
                                                 numpyStrict))

ScriptSingleRollingSameUnit ==
    Script("single_rolling_same",
           heatmap_single_rolling_same_unit_main(config_file, disk,
                                                 numpyStrict))

ScriptWhole ==
    Script("whole", heatmap_whole_main(config_file, disk, numpyStrict))

ScriptWholeRollingDiffUnit ==
    Script("whole_rolling_diff",
           heatmap_whole_rolling_diff_unit_main(config_file, disk,
                                                numpyStrict))

ScriptWholeRollingSameUnit ==
    Script("whole_rolling_same",
           heatmap_whole_rolling_same_unit_main(config_file, disk,
                                                numpyStrict))

NextDrivers ==
    \/ EditConfig
    \/ LoadConfig
    \/ SaveConfig
    \/ BrowseDataFile
    \/ RunVisualization
    \/ ScriptSingle
    \/ ScriptSingleRollingDiffUnit
    \/ ScriptSingleRollingSameUnit
    \/ ScriptWhole
    \/ ScriptWholeRollingDiffUnit
    \/ ScriptWholeRollingSameUnit

SpecDrivers == InitDrivers /\ [][NextDrivers]_vars

---------------------------------------------------------------------------
(* Properties of read_data *)

Sep == Get(config, "sep", "\t")

\* a run has taken place and read_data returned an array
LoadReturned == mode # "none" /\ data.err = ""

\* a line is retained iff, trimmed, it is non-empty and starts with none of
\* '#', 'Original', 'Columns'
Retained(line) ==
    LET t == Strip(line)
    IN /\ Len(t) > 0
       /\ ~(Len(t) >= 1 /\ t[1] = "#")
       /\ ~StartsWith(t, <<"O", "r", "i", "g", "i", "n", "a", "l">>)
       /\ ~StartsWith(t, <<"C", "o", "l", "u", "m", "n", "s">>)

\* the delimiter-separated tokens of a line that are non-empty as they stand
RawTokens(line, sep) == SelectSeq(Split(Strip(line), sep), NonEmpty)

\* the delimiter-separated tokens of a line that are non-empty once trimmed
RECURSIVE TrimmedTokens(_)
TrimmedTokens(parts) ==
    IF parts = <<>> THEN <<>>
    ELSE (IF Strip(Head(parts)) = <<>> THEN <<>> ELSE <<Strip(Head(parts))>>)
             \o TrimmedTokens(Tail(parts))

Values(toks) == [m \in 1..Len(toks) |-> Float(Strip(toks[m]))]

\* the rows the claim as first stated expects: one row per retained line
RECURSIVE RowsPerRetainedLine(_, _)
RowsPerRetainedLine(lines, sep) ==
    IF lines = <<>> THEN <<>>
    ELSE (IF Retained(Head(lines))
          THEN <<Values(RawTokens(Head(lines), sep))>>
          ELSE <<>>) \o RowsPerRetainedLine(Tail(lines), sep)

\* the rows the amended claim expects: one row per retained line that has a
\* token which is non-empty once trimmed
RECURSIVE RowsPerDataLine(_, _)
RowsPerDataLine(lines, sep) ==
    IF lines = <<>> THEN <<>>
    ELSE LET toks == TrimmedTokens(Split(Strip(Head(lines)), sep))
         IN (IF Retained(Head(lines)) /\ toks # <<>>
             THEN <<Values(toks)>>
             ELSE <<>>) \o RowsPerDataLine(Tail(lines), sep)

\* a well-formed file: at least one retained line, and every retained line
\* holds the same number (at least one) of numeric values and nothing else
WellFormed(lines, sep) ==
    LET kept == SelectSeq(lines, Retained)
        toks(k) == Split(Strip(kept[k]), sep)
    IN /\ kept # <<>>
       /\ \A k \in 1..Len(kept) :
              /\ Len(toks(k)) = Len(toks(1))
              /\ \A m \in 1..Len(toks(k)) : FloatOk(Strip(toks(k)[m]))

\* C1 as first stated: whenever load returns, the grid holds exactly one row
\* per retained line, made of that line's non-empty tokens
C1_OneRowPerRetainedLine ==
    LoadReturned => data.rows = RowsPerRetainedLine(fileLines, Sep)

\* C1 (amended): whenever load returns, the grid holds, in file order, one
\* row per retained line that has at least one token non-empty after
\* trimming, made of the values of those tokens (a retained line without such
\* a token contributes no row); and a well-formed file of r retained lines
\* with c values each loads to an r x c grid
C1_LoadedRows ==
    /\ LoadReturned => data.rows = RowsPerDataLine(fileLines, Sep)
    /\ (mode # "none" /\ WellFormed(fileLines, Sep)) =>
           /\ data.err = ""
           /\ data.ndim = 2
           /\ NRows(data.rows) = Len(SelectSeq(fileLines, Retained))
           /\ NCols(data.rows) =
                  Len(Split(Strip(SelectSeq(fileLines, Retained)[1]), Sep))

\* two header lines, a data row, a line holding only the delimiter, a data row:
\* the grid is the 2 x 2 grid of the two data rows
C1_Witness ==
    /\ LoadReturned
    /\ Sep = ","
    /\ fileLines = <<HeaderLine, ColumnsLine,
                     <<"5", ",", "6">>, <<",">>, <<"5", ",", "6">> >>
    /\ data.ndim = 2
    /\ data.rows = << <<5 * Unit, 6 * Unit>>, <<5 * Unit, 6 * Unit>> >>

\* the retained lines of the file parse to rows of different lengths
RaggedFile ==
    LET rows == RowsPerDataLine(fileLines, Sep)
        kept == SelectSeq(fileLines, Retained)
    IN /\ \A k \in 1..Len(kept) :
              \A m \in 1..Len(RawTokens(kept[k], Sep)) :
                  LET t == Strip(RawTokens(kept[k], Sep)[m])
                  IN t = <<>> \/ FloatOk(t)
       /\ \E k \in 1..Len(rows) : Len(rows[k]) # Len(rows[1])

\* C2: loading a file whose retained rows differ in length fails with a
\* MalformedGridError, and no grid is returned
C2_RaggedRejected ==
    (mode # "none" /\ RaggedFile) =>
        /\ data.err = "MalformedGridError"
        /\ data.rows = <<>>

---------------------------------------------------------------------------
(* Properties of the smoothing filter *)

RECURSIVE SumOver(_, _)
SumOver(f, S) ==
    IF S = {} THEN 0
    ELSE LET e == CHOOSE e \in S : TRUE
         IN f[e] + SumOver(f, S \ {e})

\* the cell at (i, j), or the nearest edge cell when (i, j) is off the grid
EdgeCell(rows, i, j) ==
    LET ii == IF i < 1 THEN 1 ELSE IF i > NRows(rows) THEN NRows(rows) ELSE i
        jj == IF j < 1 THEN 1 ELSE IF j > NCols(rows) THEN NCols(rows) ELSE j
    IN rows[ii][jj]

\* the sum of the cells at the offsets lo..hi around (i, j) in both axes
NeighbourhoodSum(rows, i, j, lo, hi) ==
    LET offsets == (lo..hi) \X (lo..hi)
    IN SumOver([p \in offsets |-> EdgeCell(rows, i + p[1], j + p[2])], offsets)

\* out has the shape of rows, and each of its cells is the mean of the
\* (hi - lo + 1) x (hi - lo + 1) cells around it
IsBoxMean(out, rows, lo, hi) ==
    /\ NRows(out) = NRows(rows)
    /\ \A i \in 1..NRows(rows) :
           /\ Len(out[i]) = NCols(rows)
           /\ \A j \in 1..NCols(rows) :
                  out[i][j] * (hi - lo + 1) * (hi - lo + 1)
                      = NeighbourhoodSum(rows, i, j, lo, hi)

RollingModes ==
    {"single_rolling_diff", "single_rolling_same",
     "whole_rolling_diff", "whole_rolling_same"}

Rendered == mode \in RollingModes /\ err = "" /\ Len(panels) >= 3

\* C3: the smoothed grids have the shape of the input, and each cell is the
\* arithmetic mean of its window x window neighbourhood with off-grid indices
\* replaced by the nearest edge cell: offsets -1..+1 for window 3 and
\* -3..+2 for window 6
C3_BoxMeanNearestEdge ==
    Rendered =>
        /\ IsBoxMean(panels[2].data, data.rows, -1, 1)
        /\ IsBoxMean(panels[3].data, data.rows, -3, 2)

\* a 3 x 3 grid whose smoothed variants differ from it and from each other
C3_Witness ==
    /\ Rendered
    /\ NRows(data.rows) = 3
    /\ NCols(data.rows) = 3
    /\ panels[1].data = data.rows
    /\ panels[2].data # data.rows
    /\ panels[3].data # panels[2].data
    /\ panels[2].data[1][1] # panels[2].data[2][2]

\* C4: smoothing with window 1 returns the grid, cell for cell
C4_WindowOneIdentity ==
    (mode = "apply_rolling_average" /\ window = 1) => smoothed = data.rows

\* window 1 applied to a grid of more than one distinct value
C4_Witness ==
    /\ mode = "apply_rolling_average"
    /\ window = 1
    /\ NRows(data.rows) = 3
    /\ Cardinality(Cells(data.rows)) > 3
    /\ smoothed = data.rows

---------------------------------------------------------------------------
(* Properties of the colour scales *)

Least(S) == CHOOSE v \in S : \A u \in S : v <= u
Greatest(S) == CHOOSE v \in S : \A u \in S : v >= u

GlobalScale == <<Least(Cells(data.rows)), Greatest(Cells(data.rows))>>

\* C5: under the shared-units policy the three full-grid panels are drawn with
\* one scale, the minimum and maximum of the original grid
C5_GlobalScaleShared ==
    (mode = "single_rolling_same" /\ err = "") =>
        /\ Len(panels) = 3
        /\ panels[1].data = data.rows
        /\ \A k \in 1..3 : panels[k].clim = GlobalScale

\* the smoothed grids have other extrema than the original, yet its scale
C5_Witness ==
    /\ mode = "single_rolling_same"
    /\ err = ""
    /\ Len(panels) = 3
    /\ np_min(panels[2].data) > GlobalScale[1]
    /\ np_max(panels[3].data) < GlobalScale[2]
    /\ panels[2].clim = GlobalScale
    /\ panels[3].clim = GlobalScale

\* the scale spanned by the three region panels together
RegionScale ==
    LET shown == Cells(panels[4].data) \cup Cells(panels[5].data)
                     \cup Cells(panels[6].data)
    IN <<Least(shown), Greatest(shown)>>

\* C6: under the grouped policy the three full-grid panels share the global
\* scale and the three region panels share the scale spanned by the region of
\* the original, 3x3 and 6x6 grids; where the two scales differ, no region
\* panel has the global scale and no full-grid panel the region scale
C6_GroupedScales ==
    (mode = "whole_rolling_same" /\ err = "") =>
        /\ Len(panels) = 6
        /\ panels[1].data = data.rows
        /\ \A k \in 1..3 : panels[k].clim = GlobalScale
        /\ \A k \in 4..6 : panels[k].clim = RegionScale
        /\ RegionScale # GlobalScale =>
               /\ \A k \in 4..6 : panels[k].clim # GlobalScale
               /\ \A k \in 1..3 : panels[k].clim # RegionScale

\* the region scale differs from the global one, and the smoothed region
\* panels widen it beyond the extrema of the original region
C6_Witness ==
    /\ mode = "whole_rolling_same"
    /\ err = ""
    /\ Len(panels) = 6
    /\ region = <<1, 1, 2, 2>>
    /\ RegionScale # GlobalScale
    /\ RegionScale[1] < np_min(panels[4].data)
    /\ panels[5].clim = RegionScale

---------------------------------------------------------------------------
(* Properties of the region *)

RegionModes == {"whole", "whole_rolling_diff", "whole_rolling_same"}

\* a region mode ran on a loaded rows x cols grid
RegionRun == mode \in RegionModes /\ data.err = "" /\ data.ndim = 2

InsideGrid(rc, rows) ==
    /\ 0 <= rc[1]
    /\ rc[1] + rc[3] <= NCols(rows)
    /\ 0 <= rc[2]
    /\ rc[2] + rc[4] <= NRows(rows)

Exceeds(rc, rows) ==
    rc[1] + rc[3] > NCols(rows) \/ rc[2] + rc[4] > NRows(rows)

\* the panels that show the region: the second of whole+region, the last
\* three of whole+rolling
RegionPanelsAt == IF mode = "whole" THEN {2} ELSE {4, 5, 6}
FullPanelOf(k) == IF mode = "whole" THEN 1 ELSE k - 3

\* C7: a region that exceeds the grid makes the run fail with a
\* RegionOutOfBoundsError, and no region panel is drawn
C7_OutOfBoundsRejected ==
    (RegionRun /\ Exceeds(region, data.rows)) =>
        /\ err = "RegionOutOfBoundsError"
        /\ panels = <<>>

\* the h x w sub-grid whose cell (i, j) is cell (y + i, x + j) of the grid,
\* counting from 0
SubGrid(rows, rc) ==
    [i \in 1..rc[4] |-> [j \in 1..rc[3] |-> rows[rc[2] + i][rc[1] + j]]]

\* C8: a region inside the grid is extracted exactly: each region panel shows
\* the height x width sub-grid of its full grid at (x, y)
C8_ExactSubGrid ==
    (RegionRun /\ err = "" /\ InsideGrid(region, data.rows)) =>
        /\ panels[1].data = data.rows
        /\ \A k \in RegionPanelsAt :
               panels[k].data = SubGrid(panels[FullPanelOf(k)].data, region)

\* a configured region that is no square and sits off the diagonal
C8_Witness ==
    /\ mode = "whole_rolling_diff"
    /\ err = ""
    /\ region = <<1, 0, 2, 1>>
    /\ NRows(data.rows) = 3
    /\ InsideGrid(region, data.rows)
    /\ Len(panels) = 6
    /\ panels[4].data = <<SubSeq(data.rows[1], 2, 3)>>
    /\ panels[5].data # panels[4].data

\* C9: without a 'region' key the region is (cols - width, rows - height,
\* width, height) with width = max(3, floor(cols / 4)) and
\* height = max(3, floor(rows / 4)); 200 x 160 gives (120, 150, 40, 50) and
\* 100 x 80 gives (60, 75, 20, 25)
C9_DefaultRegion ==
    /\ (RegionRun /\ "region" \notin DOMAIN config) =>
           LET rows == NRows(data.rows)
               cols == NCols(data.rows)
               width == IF cols \div 4 > 3 THEN cols \div 4 ELSE 3
               height == IF rows \div 4 > 3 THEN rows \div 4 ELSE 3
           IN region = <<cols - width, rows - height, width, height>>
    /\ DefaultRegionOfShape(200, 160) = <<120, 150, 40, 50>>
    /\ DefaultRegionOfShape(100, 80) = <<60, 75, 20, 25>>

\* a grid wide enough for a quarter to exceed 3 columns, not tall enough for
\* a quarter to exceed 3 rows
C9_Witness ==
    /\ mode = "whole"
    /\ err = ""
    /\ "region" \notin DOMAIN config
    /\ NRows(data.rows) = 9
    /\ NCols(data.rows) = 16
    /\ region = <<12, 6, 4, 3>>

\* C10: every region a run extracts or highlights lies inside the grid, the
\* default region of any grid of at least one row and column included
C10_RegionInsideGrid ==
    RegionRun => InsideGrid(region, data.rows)

---------------------------------------------------------------------------
(* Properties of the drivers *)

\* the configuration file held a JSON text
ConfigParsed == config_file.exists /\ config_file.text.ok

\* the configuration a run was given: the dict of config.json for a script,
\* current_config at the time of the run for the window
GivenConfig ==
    IF driver = "script" THEN config_file.text.value ELSE run_config

\* a driver ran a region mode on a configuration that parsed
RegionDriverRun ==
    /\ mode \in RegionModes
    /\ driver = "script" => ConfigParsed

\* C11: in every region mode and every driver, a configuration without a
\* 'region' key makes the run use the default region of the loaded grid (and
\* is no error), one with a 'region' key makes it use exactly that region
C11_RegionFromConfigOrRule ==
    RegionDriverRun =>
        /\ ("filepath" \in DOMAIN GivenConfig) => err # "KeyError"
        /\ (data.err = "" /\ data.ndim = 2) =>
               region = IF "region" \in DOMAIN GivenConfig
                        THEN GivenConfig.region
                        ELSE _get_default_region(data.rows)

\* a run of either driver drew its panels
Drawn == mode # "none" /\ err = "" /\ panels # <<>>

\* the labels of panel p are one text per cell of its grid
OneLabelPerCell(p) ==
    /\ DOMAIN p.labels = 1..NRows(p.data)
    /\ \A i \in 1..NRows(p.data) : DOMAIN p.labels[i] = 1..NCols(p.data)

\* C12: a panel of more than 400 cells carries no per-cell text, a panel whose
\* show_values flag is on and whose grid has at most 400 cells carries one
\* text per cell, and a panel whose flag is off carries none
C12_LabelsUpTo400Cells ==
    \A k \in 1..Len(panels) :
        LET p == panels[k]
            cells == NRows(p.data) * NCols(p.data)
        IN /\ cells > 400 => p.labels = <<>>
           /\ (p.show_values /\ cells <= 400) => OneLabelPerCell(p)
           /\ ~p.show_values => p.labels = <<>>

\* a script drew a 21 x 20 grid, flagged for values, without any text, next to
\* its 2 x 2 region with four texts
C12_Witness ==
    /\ driver = "script"
    /\ Drawn
    /\ mode = "whole_rolling_diff"
    /\ panels[1].show_values
    /\ NRows(panels[1].data) * NCols(panels[1].data) = 420
    /\ panels[1].labels = <<>>
    /\ NRows(panels[4].data) * NCols(panels[4].data) = 4
    /\ OneLabelPerCell(panels[4])
    /\ Len(panels[4].labels) = 2

\* the number of cells of a grid that are smaller than v
CellsBelow(rows, v) ==
    Cardinality({c \in (1..NRows(rows)) \X (1..NCols(rows)) :
                     rows[c[1]][c[2]] < v})

\* a cell value v of a grid of n cells lies strictly above the grid's median
\* iff at least half of the cells are smaller than v: with the cells sorted as
\* s[1] <= ... <= s[n], the median is s[(n + 1) / 2] for odd n, which v
\* exceeds iff the first (n + 1) / 2 cells are below v, and
\* (s[n / 2] + s[n / 2 + 1]) / 2 for even n, which v exceeds iff v > s[n / 2]
AboveMedian(rows, v) ==
    2 * CellsBelow(rows, v) >= NRows(rows) * NCols(rows)

\* C13: on every panel that carries value labels, a cell strictly greater
\* than the median of that panel's own grid has white text and every other
\* cell, one equal to the median included, has black text
C13_LabelColourByMedian ==
    \A k \in 1..Len(panels) :
        LET p == panels[k]
        IN p.labels # <<>> =>
               \A i \in 1..NRows(p.data) : \A j \in 1..NCols(p.data) :
                   p.labels[i][j] =
                       IF AboveMedian(p.data, p.data[i][j])
                       THEN "white" ELSE "black"

\* the window drew the grid 1 2 3 / 4 0 6 / 7 8 2, whose median 3 is a cell
C13_Witness ==
    /\ driver = "gui"
    /\ Drawn
    /\ mode = "single"
    /\ panels[1].data = << <<1 * Unit, 2 * Unit, 3 * Unit>>,
                           <<4 * Unit, 0, 6 * Unit>>,
                           <<7 * Unit, 8 * Unit, 2 * Unit>> >>
    /\ panels[1].labels = << <<"black", "black", "black">>,
                             <<"white", "black", "white">>,
                             <<"white", "white", "black">> >>

\* the grid [[1, 2], [3, 4]]
Grid1234 == << <<1 * Unit, 2 * Unit>>, <<3 * Unit, 4 * Unit>> >>

\* a single-mode run of either driver drew the grid [[1, 2], [3, 4]]
SingleRunOn1234 == Drawn /\ mode = "single" /\ data.rows = Grid1234

\* C14 as stated: single mode on [[1, 2], [3, 4]] gives one panel scaled from
\* 1 to 4 with per-cell text, 2 and 3 dark and 4 light
C14_TwoAndThreeDark ==
    SingleRunOn1234 =>
        /\ Len(panels) = 1
        /\ panels[1].clim = <<1 * Unit, 4 * Unit>>
        /\ panels[1].labels # <<>>
        /\ panels[1].labels[1][2] = "black"
        /\ panels[1].labels[2][1] = "black"
        /\ panels[1].labels[2][2] = "white"

\* C14: single mode on [[1, 2], [3, 4]] gives one panel scaled from 1 to 4;
\* the window's panel carries per-cell text with 1 and 2, not above the
\* median 2.5, in black and 3 and 4 in white; the panel of heatmap_single.py
\* carries no per-cell text
C14_OneAndTwoDark ==
    SingleRunOn1234 =>
        /\ Len(panels) = 1
        /\ panels[1].data = Grid1234
        /\ panels[1].clim = <<1 * Unit, 4 * Unit>>
        /\ driver = "gui" =>
               panels[1].labels = << <<"black", "black">>,
                                     <<"white", "white">> >>
        /\ driver = "script" => panels[1].labels = <<>>

\* the window ran single mode on data.txt, which holds 1 2 / 3 4
C14_Witness ==
    /\ driver = "gui"
    /\ SingleRunOn1234
    /\ fileLines = Grid2x2
    /\ panels[1].labels[2][1] = "white"
    /\ output_path # <<>>

\* panels 1..3 are the grid, its 3 x 3 box mean and its 6 x 6 box mean
OriginalSmallLarge ==
    /\ panels[1].data = data.rows
    /\ IsBoxMean(panels[2].data, data.rows, -1, 1)
    /\ IsBoxMean(panels[3].data, data.rows, -3, 2)

\* the panels that show a whole grid in a region mode
FullPanelsAt ==
    CASE mode = "whole" -> {1}
      [] mode \in {"whole_rolling_diff", "whole_rolling_same"} -> {1, 2, 3}
      [] OTHER -> {}

\* C15: single draws 1 panel (the grid); single+rolling 3 panels (grid, 3x3,
\* 6x6); whole+region 2 panels (grid, region); whole+rolling 6 panels (grid,
\* 3x3, 6x6, then the same three restricted to the region); the windows are 3
\* and 6; the region's rectangle is on the full-grid panels of the three
\* region modes and on no other panel
C15_PanelArrangement ==
    Drawn =>
        /\ mode = "single" =>
               Len(panels) = 1 /\ panels[1].data = data.rows
        /\ mode \in {"single_rolling_diff", "single_rolling_same"} =>
               Len(panels) = 3 /\ OriginalSmallLarge
        /\ mode = "whole" =>
               /\ Len(panels) = 2
               /\ panels[1].data = data.rows
               /\ InsideGrid(region, data.rows) =>
                      panels[2].data = SubGrid(panels[1].data, region)
        /\ mode \in {"whole_rolling_diff", "whole_rolling_same"} =>
               /\ Len(panels) = 6
               /\ OriginalSmallLarge
               /\ InsideGrid(region, data.rows) =>
                      \A k \in 4..6 :
                          panels[k].data = SubGrid(panels[k - 3].data, region)
        /\ \A k \in 1..Len(panels) :
               panels[k].rect = IF k \in FullPanelsAt THEN region ELSE <<>>

\* a script drew the six panels of whole+rolling with grouped scales for the
\* region (1, 1, 2, 2) of a 3 x 3 grid
C15_Witness ==
    /\ driver = "script"
    /\ Drawn
    /\ mode = "whole_rolling_same"
    /\ Len(panels) = 6
    /\ region = <<1, 1, 2, 2>>
    /\ NRows(data.rows) = 3
    /\ panels[2].data # panels[3].data
    /\ panels[3].rect = region
    /\ panels[4].rect = <<>>
    /\ panels[5].data = SubGrid(panels[2].data, region)

\* the place of the dot that starts the final extension of path p: the last
\* dot of p, when no '/' follows it and it does not start the file's name
ExtensionDots(p) ==
    {k \in 2..Len(p) :
        /\ p[k] = "."
        /\ p[k - 1] # "/"
        /\ \A m \in (k + 1)..Len(p) : p[m] # "." /\ p[m] # "/"}

\* p without its final extension
Stem(p) ==
    IF ExtensionDots(p) = {} THEN p
    ELSE SubSeq(p, 1, (CHOOSE k \in ExtensionDots(p) : TRUE) - 1)

ModeLetters(m) ==
    CASE m = "single" -> <<"s">>
      [] m = "single_rolling_diff" -> <<"s", "d", "u">>
      [] m = "single_rolling_same" -> <<"s", "s", "u">>
      [] m = "whole" -> <<"w">>
      [] m = "whole_rolling_diff" -> <<"w", "d", "u">>
      [] m = "whole_rolling_same" -> <<"w", "s", "u">>

\* <stem>-heatmap-<letters>.png
ImageOf(p, m) ==
    Stem(p) \o <<"-", "h", "e", "a", "t", "m", "a", "p", "-">>
        \o ModeLetters(m) \o <<".", "p", "n", "g">>

\* a run of either driver wrote its image
Wrote == mode # "none" /\ output_path # <<>>

\* C16: the file a run writes is the data file's path without its final
\* extension, then the mode's suffix (-heatmap-s, -sdu, -ssu, -w, -wdu, -wsu),
\* then '.png'; the six modes give six different files for one input, none of
\* them the input
C16_OutputPath ==
    Wrote =>
        /\ output_path = ImageOf(run_config.filepath, mode)
        /\ output_path # run_config.filepath
        /\ \A m1, m2 \in VizTypes :
               /\ ImageOf(run_config.filepath, m1) # run_config.filepath
               /\ m1 # m2 =>
                      ImageOf(run_config.filepath, m1)
                          # ImageOf(run_config.filepath, m2)

\* the window wrote run.1/grid-heatmap-ssu.png for the data file run.1/grid,
\* whose only dot is in the directory's name
C16_Witness ==
    /\ driver = "gui"
    /\ Wrote
    /\ mode = "single_rolling_same"
    /\ run_config.filepath
           = <<"r", "u", "n", ".", "1", "/", "g", "r", "i", "d">>
    /\ output_path = <<"r", "u", "n", ".", "1", "/", "g", "r", "i", "d",
                       "-", "h", "e", "a", "t", "m", "a", "p", "-",
                       "s", "s", "u", ".", "p", "n", "g">>

\* the number of panels of a mode's figure
PanelCount(m) ==
    CASE m = "single" -> 1
      [] m \in {"single_rolling_diff", "single_rolling_same"} -> 3
      [] m = "whole" -> 2
      [] m \in {"whole_rolling_diff", "whole_rolling_same"} -> 6

\* C17: a run writes its image only after the data file was opened, the grid
\* loaded and every panel of the mode drawn; a run that fails (in loading, in
\* the region, in a panel) writes no file
C17_WriteAfterAllPanels ==
    mode # "none" =>
        /\ (saved \/ output_path # <<>>) =>
               /\ saved /\ output_path # <<>>
               /\ opened
               /\ data.err = ""
               /\ err = ""
               /\ Len(panels) = PanelCount(mode)
        /\ (err # "" \/ data.err # "" \/ ~opened) =>
               ~saved /\ output_path = <<>>

\* a script loaded a grid and failed on its empty region: nothing is written
C17_Witness ==
    /\ driver = "script"
    /\ mode = "whole_rolling_same"
    /\ opened
    /\ data.err = ""
    /\ data.ndim = 2
    /\ region # <<>>
    /\ err = "ValueError"
    /\ output_path = <<>>
    /\ ~saved

\* C18: a run whose configuration is missing or is no JSON surfaces the error
\* and ends before the data file is opened, in the scripts (config.json) and
\* in the window (the editor's text that run_visualization saves first): no
\* such run reads the data file or writes an image
C18_ConfigErrorAborts ==
    /\ [](driver = "script" /\ mode # "none" /\ ~ConfigParsed =>
              err # "" /\ ~opened /\ output_path = <<>>)
    /\ [][RunVisualization /\ ~config_edit.ok =>
              err' # "" /\ ~opened' /\ output_path' = <<>>]_vars

\* what the window's last run would have left behind as the first run of a
\* process, given its mode, its configuration and the files on disk
FreshRun ==
    HeatmapGUI_run_visualization(run_config, mode, disk, numpyStrict).out

\* the DPI of a figure made under rcParams['figure.dpi'] = x; matplotlib's own
\* default is 100
DpiOf(x) == IF x = <<>> THEN 100 ELSE x[1]

\* C19: the figure of a run (its grid, panels, colour scales and its DPI)
\* depends only on the run's mode, configuration and data file, never on the
\* runs before it in the same process
C19_RunsIndependent ==
    (driver = "gui" /\ mode # "none") =>
        /\ data = FreshRun.data
        /\ err = FreshRun.err
        /\ region = FreshRun.region
        /\ panels = FreshRun.panels
        /\ FreshRun.fig => DpiOf(figure_dpi) = DpiOf(FreshRun.rc_dpi)

---------------------------------------------------------------------------
(* Properties of the loaded grid *)

\* C20: every grid that read_data returns has at least one row and at least
\* one column, for a file without any data line as well
C20_GridNotEmpty ==
    LoadReturned =>
        /\ data.ndim = 2
        /\ NRows(data.rows) >= 1
        /\ NCols(data.rows) >= 1

---------------------------------------------------------------------------
(* Properties of the window's configuration handling *)

\* C21: load_config without a config file makes the defaults the current
\* configuration and creates the config file holding them, at start-up (the
\* file exists once the window is up) and on a later 'Load Config'
C21_MissingFileGetsDefaults ==
    /\ [](driver = "gui" /\ events = 0 =>
              /\ config_file.exists
              /\ config_file.text.ok)
    /\ [][LoadConfig /\ ~config_file.exists =>
              /\ config' = DefaultsCo
              /\ config_file' = File(Dumps(DefaultsCo))]_vars

\* C22: a run started from the window works with the configuration shown in
\* the editor: run_visualization saves the editor's content, and the data
\* file is opened and the panels are drawn for exactly that configuration
C22_RunUsesEditorContent ==
    [][RunVisualization =>
           /\ config_edit.ok =>
                  /\ config_file' = File(config_edit)
                  /\ run_config' = config_edit.value
           /\ (opened' \/ panels' # <<>>) =>
                  /\ config_edit.ok
                  /\ run_config' = config_edit.value]_vars

\* what save_config makes of the window: on a text that is JSON, the parsed
\* text is the current configuration and the content of config.json; on any
\* other text both are as before and the warning is up
SavedAllOrNothing ==
    IF config_edit.ok
    THEN /\ config' = config_edit.value
         /\ config_file'.exists
         /\ config_file'.text.ok
         /\ config_file'.text.value = config_edit.value
         /\ warning' = ""
    ELSE /\ config' = config
         /\ config_file' = config_file
         /\ warning' = "Invalid JSON format"

\* C23: save_config, from its button and at the start of run_visualization,
\* is all-or-nothing in the validity of the editor's text
C23_SaveAllOrNothing ==
    [][(SaveConfig \/ RunVisualization) =>
           SavedAllOrNothing /\ config_edit' = config_edit]_vars

\* 'Save Config' was pressed on a text that is no JSON: the warning is up, the
\* configuration is still the one config.json holds
C23_Witness ==
    /\ driver = "gui"
    /\ events >= 1
    /\ mode = "none"
    /\ ~config_edit.ok
    /\ warning = "Invalid JSON format"
    /\ config_file.exists
    /\ config_file.text.ok
    /\ config = config_file.text.value

---------------------------------------------------------------------------
(* Properties that relate smoothing, scales and regions *)

\* every cell of grid g lies between lo and hi
Within(g, lo, hi) == \A v \in Cells(g) : lo <= v /\ v <= hi

---------------------------------------------------------------------------
(* The window's methods against the standalone scripts *)

\* the run of the script of a mode on a config.json holding cfg
script_main(viz_type, cfg, dsk, raggedRaises) ==
    CASE viz_type = "single" ->
             heatmap_single_main(File(Dumps(cfg)), dsk, raggedRaises)
      [] viz_type = "single_rolling_diff" ->
             heatmap_single_rolling_diff_unit_main(File(Dumps(cfg)), dsk,
                                                   raggedRaises)
      [] viz_type = "single_rolling_same" ->
             heatmap_single_rolling_same_unit_main(File(Dumps(cfg)), dsk,
                                                   raggedRaises)
      [] viz_type = "whole" ->
             heatmap_whole_main(File(Dumps(cfg)), dsk, raggedRaises)
      [] viz_type = "whole_rolling_diff" ->
             heatmap_whole_rolling_diff_unit_main(File(Dumps(cfg)), dsk,
                                                  raggedRaises)
      [] viz_type = "whole_rolling_same" ->
             heatmap_whole_rolling_same_unit_main(File(Dumps(cfg)), dsk,
                                                  raggedRaises)

\* the panels the script of the window's last mode draws for the same
\* configuration and files
ScriptPanels == script_main(mode, run_config, disk, numpyStrict).out.panels

\* the window drew panels for a configuration that names the data file, the
\* delimiter and the region
GuiDrawn ==
    /\ driver = "gui"
    /\ Drawn
    /\ {"filepath", "sep", "region"} \subseteq DOMAIN run_config

SamePanel(p, q) ==
    /\ p.data = q.data
    /\ p.title = q.title
    /\ p.clim = q.clim
    /\ p.rect = q.rect
    /\ p.annotated = q.annotated
    /\ p.unit_label = q.unit_label

\* C25: for the same data file, delimiter and region, each mode of the window
\* draws the panels of its script: as many, and panel for panel the same
\* grid, title, colour scale, rectangle, value annotation and unit label
C25_GuiEqualsScripts ==
    GuiDrawn =>
        /\ Len(ScriptPanels) = Len(panels)
        /\ \A k \in 1..Len(panels) : SamePanel(panels[k], ScriptPanels[k])

---------------------------------------------------------------------------
(* The order of smoothing and cutting out the region *)

\* a whole+rolling mode drew its six panels for a region inside the grid
RegionSmoothed ==
    /\ mode \in {"whole_rolling_diff", "whole_rolling_same"}
    /\ err = ""
    /\ Len(panels) = 6
    /\ InsideGrid(region, data.rows)

\* cell (i, j) of the region panel is the mean of the cells of the FULL grid
\* at the offsets lo..hi around cell (y + i, x + j)
MeanOfFullGrid(out, lo, hi) ==
    /\ NRows(out) = region[4]
    /\ \A i \in 1..region[4] :
           /\ Len(out[i]) = region[3]
           /\ \A j \in 1..region[3] :
                  out[i][j] * (hi - lo + 1) * (hi - lo + 1)
                      = NeighbourhoodSum(data.rows, region[2] + i, region[1] + j, lo, hi)

\* C26: in the whole+rolling modes the smoothed region panels are the region
\* cut out of the smoothed full grid: each of their cells is the window mean
\* taken over the full grid, cells outside the region included
C26_SmoothThenSlice ==
    RegionSmoothed =>
        /\ MeanOfFullGrid(panels[5].data, WindowLo(SmallWindow), WindowHi(SmallWindow))
        /\ MeanOfFullGrid(panels[6].data, WindowLo(LargeWindow), WindowHi(LargeWindow))

\* the two orders differ: the smoothed region panels are not the window means
\* of the region panel itself
C26_Witness ==
    /\ RegionSmoothed
    /\ Size(panels[4].data) > 0
    /\ ~IsBoxMean(panels[5].data, panels[4].data, WindowLo(SmallWindow), WindowHi(SmallWindow))
    /\ ~IsBoxMean(panels[6].data, panels[4].data, WindowLo(LargeWindow), WindowHi(LargeWindow))

====
